---- MODULE Spec2Model ----
(***************************************************************************)
(* Model of the two backup orchestrators of paulhirst/backup_tools:        *)
(*   Pipeline B, src/rsync_backup.py: incremental snapshot with a pid lock *)
(*               file and a last-good pointer file at the destination root *)
(*   Pipeline A, src/cloud_backup.py: stage, checksum, encrypt, upload     *)
(* Each pipeline has its own specification (SpecB, SpecA); the variables   *)
(* of the other pipeline are held at their initial value.                  *)
(***************************************************************************)
EXTENDS Integers, Sequences, FiniteSets, TLC

\* ------------------------------------------------------------------ bounds
\* number of concurrent rsync_backup processes against one destination root
NumRuns == 2
\* the clock of get_label runs over 1..MaxTime (seconds)
MaxTime == 2

\* ------------------------------------------------------- values and strings
\* Strings are sequences of characters. None, as the content of a missing
\* file (getfile returns None) and as the value of a string variable, is a
\* sequence that is no string of characters
None == <<"None">>
\* a file that open(filename, 'w') has truncated and that is not yet written
Empty == <<>>
\* an integer variable that is None or not yet assigned
NoInt == -1
\* the exit status of a process that SIGUSR1 terminated (minus the signal)
SIGUSR1 == -10

\* pids of the modelled runs, and a pid recorded by an earlier, unmodelled run
\* (each run has a pid of its own: the system does not hand the pid of a run
\* to a later run while the lock file still records it)
Pids == 1..NumRuns
OtherPid == 9

\* str.rstrip('/'): drop the trailing c's of s
RECURSIVE rstrip(_, _)
rstrip(s, c) ==
  IF s # <<>> /\ s[Len(s)] = c THEN rstrip(SubSeq(s, 1, Len(s) - 1), c) ELSE s

\* str.lstrip('/'): drop the leading c's of s
RECURSIVE lstrip(_, _)
lstrip(s, c) ==
  IF s # <<>> /\ s[1] = c THEN lstrip(Tail(s), c) ELSE s

\* str.replace(a, b) for single characters
replace(s, a, b) == [i \in 1..Len(s) |-> IF s[i] = a THEN b ELSE s[i]]

\* c in s
contains(s, c) == \E i \in 1..Len(s) : s[i] = c

\* socket.gethostname()
hostname == <<"h", "o", "s", "t">>

Digits == <<"0", "1", "2", "3", "4", "5", "6", "7", "8", "9">>
Digit(n) == Digits[n + 1]

\* str(n) of a pid
str(n) == IF n < 10 THEN <<Digit(n)>> ELSE <<Digit(n \div 10), Digit(n % 10)>>

\* int(s) of the text of the pid file; the empty string raises ValueError
IsInt(s) == s # <<>> /\ \A i \in 1..Len(s) : \E d \in 0..9 : s[i] = Digit(d)
DigitValue(c) == CHOOSE d \in 0..9 : Digit(d) = c
RECURSIVE int(_)
int(s) ==
  IF Len(s) = 1 THEN DigitValue(s[1])
  ELSE 10 * int(SubSeq(s, 1, Len(s) - 1)) + DigitValue(s[Len(s)])

\* a field of isoformat: two digits, zero padded
TwoDigits(n) == <<Digit((n \div 10) % 10), Digit(n % 10)>>

\* the clock counts the seconds since the midnight that began 2026-11-04;
\* the date of clock value t as isoformat prints it (within the month)
Date(t) ==
  <<"2", "0", "2", "6", "-", "1", "1", "-">> \o TwoDigits(4 + t \div 86400)

\* mutant: the fields of the time are printed without padding
isoformat_Unpadded(t) ==
  Date(t) \o <<"T">> \o str((t \div 3600) % 24) \o <<":">>
          \o str((t \div 60) % 60) \o <<":">> \o str(t % 60)

\* datetime.isoformat(timespec='seconds') of the clock value t:
\* YYYY-MM-DDTHH:MM:SS
isoformat(t) ==
  Date(t) \o <<"T">> \o TwoDigits((t \div 3600) % 24) \o <<":">>
          \o TwoDigits((t \div 60) % 60) \o <<":">> \o TwoDigits(t % 60)

\* get_label(argsrc) at clock value t
get_label(argsrc, t) ==
  LET dt == isoformat(t)
      src == replace(lstrip(argsrc, "/"), "/", "_")
  IN  IF contains(src, ":")
        THEN src \o <<"_">> \o dt
        ELSE hostname \o <<"_">> \o src \o <<"_">> \o dt

\* the source arguments the runs are started with (all runs back up the same
\* source): a local path with a trailing slash, a remote reference
ArgSrcs == { <<"/", "a", "/", "b", "/">>, <<"r", ":", "/", "a">> }

\* the users that start runs: root and an ordinary user
Uids == {0, 1000}

\* exit statuses of the sync command: success, rsync's partial-transfer error
RetCodes == {0, 23}

\* the variable rsync before the command is run
NoCommand ==
  [ran |-> FALSE, dry_run |-> FALSE, link_dest |-> None, target |-> None]

VARIABLES
  \* ---- Pipeline B: the destination root and the environment
  argsrc,        \* args.src of the runs
  now,           \* the clock read by get_label, in seconds
  marker,        \* rsync_backup.marker exists
  pidfile,       \* rsync_backup.pid: None, Empty or the recorded pid
  lastgoodFile,  \* rsync_backup.lastgood: None, Empty or a label
  otherProc,     \* the process with pid OtherPid: "dead", "notours", "live"
  \* ---- Pipeline B: one run per pid
  pc,            \* position of each run in the script
  uid,           \* the user the run belongs to
  dryrun,        \* args.dryrun
  pid,           \* the variable pid (line 87, 89)
  locked,        \* the variable locked
  pidfd,         \* the run holds the pid file open for writing (putfile)
  lastgood,      \* the variable lastgood (line 109)
  label,         \* the variable label
  rsync,         \* the rsync command the run invoked, None before
  retcode,       \* the variable retcode
  status,        \* how the process ended, None while it has not
  lgWriters,     \* the runs that called putfile('rsync_backup.lastgood')
  pidWriters,    \* the runs that called putfile('rsync_backup.pid')
  dt,            \* the clock value get_label read (line 40), NoInt before
  endedBefore    \* the runs that had ended when the run was started

bvars == <<argsrc, now, marker, pidfile, lastgoodFile, otherProc, pc, uid,
           dryrun, pid, locked, pidfd, lastgood, label, rsync, retcode,
           status, lgWriters, pidWriters, dt, endedBefore>>

\* ---- Pipeline A: one run of cloud_backup.py
VARIABLES
  srcdir,        \* the names of the entries of the source directory args.src
  keepcache,     \* args.keepcache
  dryrunA,       \* args.dryrun
  pcA,           \* position of the run in the script
  cachedir,      \* the directory cachedir/<pid> exists
  cache,         \* the files of cachedir/<pid> but the manifest: name -> data
  manifest,      \* md5sums.txt in the cache: None or its text
  srcfiles,      \* the variable srcfiles
  i,             \* the variable i
  uploads,       \* the calls of tocloud, in order
  statusA,       \* the exit status of the process, NoInt while it runs
  environ,       \* os.environ: variable name -> value, None when not set
  argsA,         \* args.passphrase and args.cachedir, None when not given
  passphrase,    \* the variable passphrase (line 70)
  cacheroot      \* the variable cachedir as resolved at line 79

\* the configuration of the run and what it resolves to
cvars == <<environ, argsA, passphrase, cacheroot>>

avars == <<srcdir, keepcache, dryrunA, pcA, cachedir, cache, manifest,
           srcfiles, i, uploads, statusA, cvars>>

\* ---- the labels of two runs of get_label
VARIABLES
  labelsrc,      \* args.src of the two calls
  t1, t2,        \* the values of the clock at the two calls
  label1, label2 \* the labels returned, None before the calls

lvars == <<labelsrc, t1, t2, label1, label2>>

vars == <<bvars, avars, lvars>>

\* a run that has been started and has not ended
Live(p) == pc[p] \notin {"idle", "exit1", "exit2", "done", "killed", "crashed"}

\* src = args.src.rstrip('/')
src == rstrip(argsrc, "/")

\* get_label is not called on its own
IdleL ==
  /\ labelsrc = <<>>
  /\ t1 = 0
  /\ t2 = 0
  /\ label1 = None
  /\ label2 = None

\* the names of the environment variables: the two the script reads (lines
\* 68, 77) and the one its help text names for the cache (line 44)
EnvNames == {"CLOUDBACKUP_PASSPHRASE", "CLOUDBACKUP_CACHEDIR",
             "CLOUDBACKUP_CACHE"}

\* Pipeline A is not run
IdleA ==
  /\ environ = [n \in EnvNames |-> None]
  /\ argsA = [passphrase |-> None, cachedir |-> None]
  /\ passphrase = None
  /\ cacheroot = None
  /\ srcdir = {}
  /\ keepcache = FALSE
  /\ dryrunA = FALSE
  /\ pcA = "off"
  /\ cachedir = FALSE
  /\ cache = {}
  /\ manifest = None
  /\ srcfiles = <<>>
  /\ i = 0
  /\ uploads = <<>>
  /\ statusA = NoInt

InitB ==
  /\ IdleA
  /\ IdleL
  /\ argsrc \in ArgSrcs
  /\ now = 1
  /\ marker \in BOOLEAN
  /\ pidfile \in {None, str(OtherPid)}
  /\ otherProc \in {"dead", "notours", "live"}
  /\ lastgoodFile \in {None, get_label(src, 0)}
  /\ pc = [p \in Pids |-> "idle"]
  /\ uid = [p \in Pids |-> 0]
  /\ dryrun = [p \in Pids |-> FALSE]
  /\ pid = [p \in Pids |-> NoInt]
  /\ locked = [p \in Pids |-> FALSE]
  /\ pidfd = [p \in Pids |-> FALSE]
  /\ lastgood = [p \in Pids |-> None]
  /\ label = [p \in Pids |-> None]
  /\ rsync = [p \in Pids |-> NoCommand]
  /\ retcode = [p \in Pids |-> NoInt]
  /\ status = [p \in Pids |-> NoInt]
  /\ lgWriters = {}
  /\ pidWriters = {}
  /\ dt = [p \in Pids |-> NoInt]
  /\ endedBefore = [p \in Pids |-> {}]

\* the clock advances
Tick ==
  /\ now < MaxTime
  /\ now' = now + 1
  /\ UNCHANGED <<avars, lvars, pidWriters, dt, endedBefore, argsrc, marker, pidfile, lastgoodFile, otherProc, pc, uid,
                 dryrun, pid, locked, pidfd, lastgood, label, rsync, retcode,
                 status, lgWriters>>

\* a process ends: exit(n), an uncaught exception, a signal
Ends(p, at, how) ==
  /\ pc' = [pc EXCEPT ![p] = at]
  /\ status' = [status EXCEPT ![p] = how]

\* the processes that have ended
Ended == {q \in Pids : pc[q] \in {"exit1", "exit2", "done", "killed", "crashed"}}

\* mutant: the marker file is not looked for
MarkerMissing_Never == FALSE

\* line 80: not os.path.exists(marker)
MarkerMissing == ~marker

\* lines 58-82: the run is started by user u with or without --dryrun and
\* checks the destination for the marker file
Start(p) ==
  /\ pc[p] = "idle"
  /\ endedBefore' = [endedBefore EXCEPT ![p] = Ended]
  /\ \E u \in Uids, d \in BOOLEAN :
       /\ uid' = [uid EXCEPT ![p] = u]
       /\ dryrun' = [dryrun EXCEPT ![p] = d]
  /\ IF MarkerMissing
       THEN Ends(p, "exit1", 1)
       ELSE /\ pc' = [pc EXCEPT ![p] = "getpid"]
            /\ UNCHANGED status
  /\ UNCHANGED <<avars, lvars, pidWriters, dt, argsrc, now, marker, pidfile,
                 lastgoodFile, otherProc, pid, locked, pidfd, lastgood, label,
                 rsync, retcode, lgWriters>>

\* lines 85-91: pid = getfile(pidfile, dest); int(pid) raises ValueError on
\* the empty string of a pid file that is being written
GetPid(p) ==
  /\ pc[p] = "getpid"
  /\ IF pidfile = None
       THEN /\ pc' = [pc EXCEPT ![p] = "putpid"]
            /\ UNCHANGED <<pid, locked, status>>
       ELSE IF ~IsInt(pidfile)
         THEN /\ Ends(p, "crashed", 1)
              /\ UNCHANGED <<pid, locked>>
         ELSE /\ pid' = [pid EXCEPT ![p] = int(pidfile)]
              /\ locked' = [locked EXCEPT ![p] = TRUE]
              /\ pc' = [pc EXCEPT ![p] = "probe"]
              /\ UNCHANGED status
  /\ UNCHANGED <<avars, lvars, pidWriters, dt, endedBefore, argsrc, now, marker, pidfile, lastgoodFile, otherProc, uid,
                 dryrun, pidfd, lastgood, label, rsync, retcode, lgWriters>>

\* kill(2): user u may signal a process of user v
CanSignal(u, v) == u = 0 \/ u = v

\* mutant: os.kill raises whatever the pid
KillReturns_AlwaysRaises(p, q) == FALSE

\* os.kill(q, sig) by run p returns (TRUE) or raises (FALSE)
KillReturns(p, q) ==
  IF q = OtherPid
    THEN otherProc = "live" \/ (otherProc = "notours" /\ uid[p] = 0)
    ELSE Live(q) /\ CanSignal(uid[p], uid[q])

\* the disposition of SIGUSR1 in a python process that installs no handler
\* for it: the process is terminated
SIGUSR1_Terminates == TRUE

\* mutants: the except branch is taken always, never
LockedAfterProbe_Never(returned) == FALSE
LockedAfterProbe_Always(returned) == TRUE

\* lines 91-97: locked is True unless os.kill raised
LockedAfterProbe(returned) == returned

\* lines 92-100: os.kill(pid, signal.SIGUSR1); the bare except marks the pid
\* file stale; a locked destination ends the run with exit(2)
Probe(p) ==
  /\ pc[p] = "probe"
  /\ LET q == pid[p]
         sent == KillReturns(p, q)
         ok == LockedAfterProbe(sent)
     IN  /\ locked' = [locked EXCEPT ![p] = ok]
         /\ IF sent /\ q = OtherPid
              THEN \E o \in {"dead", otherProc} : otherProc' = o
              ELSE UNCHANGED otherProc
         /\ LET hit == sent /\ q # OtherPid /\ SIGUSR1_Terminates
                pc1 == IF hit THEN [pc EXCEPT ![q] = "killed"] ELSE pc
                st1 == IF hit THEN [status EXCEPT ![q] = SIGUSR1] ELSE status
            IN  IF ok
                  THEN /\ pc' = [pc1 EXCEPT ![p] = "exit2"]
                       /\ status' = [st1 EXCEPT ![p] = 2]
                  ELSE /\ pc' = [pc1 EXCEPT ![p] = "putpid"]
                       /\ status' = st1
  /\ UNCHANGED <<avars, lvars, pidWriters, dt, endedBefore, argsrc, now, marker, pidfile, lastgoodFile, uid, dryrun, pid,
                 pidfd, lastgood, label, rsync, retcode, lgWriters>>

\* line 103, putfile lines 34-35: open(filename, 'w') creates or truncates
\* the pid file
OpenPidfile(p) ==
  /\ pc[p] = "putpid"
  /\ pidfile' = Empty
  /\ pidfd' = [pidfd EXCEPT ![p] = TRUE]
  /\ pidWriters' = pidWriters \cup {p}
  /\ pc' = [pc EXCEPT ![p] = "writepid"]
  /\ UNCHANGED <<avars, lvars, dt, endedBefore, argsrc, now, marker,
                 lastgoodFile, otherProc, uid, dryrun, pid, locked, lastgood,
                 label, rsync, retcode, status, lgWriters>>

\* mutant: the run records a pid that is not its own
PidText_Other(p) == str(OtherPid)

\* line 103: str(os.getpid())
PidText(p) == str(p)

\* line 103, putfile line 36: f.write(str(os.getpid())) and close; the text
\* goes to the file that was opened, which is no longer the pid file when
\* another run has removed it since
WritePidfile(p) ==
  /\ pc[p] = "writepid"
  /\ pidfile' = IF pidfd[p] THEN PidText(p) ELSE pidfile
  /\ pidfd' = [pidfd EXCEPT ![p] = FALSE]
  /\ pc' = [pc EXCEPT ![p] = "getlastgood"]
  /\ UNCHANGED <<avars, lvars, pidWriters, dt, endedBefore, argsrc, now, marker, lastgoodFile, otherProc, uid, dryrun,
                 pid, locked, lastgood, label, rsync, retcode, status,
                 lgWriters>>

\* lines 109-116: lastgood = getfile('rsync_backup.lastgood', dest);
\* label = get_label(src)
GetLastgood(p) ==
  /\ pc[p] = "getlastgood"
  /\ lastgood' = [lastgood EXCEPT ![p] = lastgoodFile]
  /\ dt' = [dt EXCEPT ![p] = now]
  /\ label' = [label EXCEPT ![p] = get_label(src, now)]
  /\ pc' = [pc EXCEPT ![p] = "sync"]
  /\ UNCHANGED <<avars, lvars, pidWriters, endedBefore, argsrc, now, marker,
                 pidfile, lastgoodFile, otherProc, uid, dryrun, pid, locked,
                 pidfd, rsync, retcode, status, lgWriters>>

\* args.dest.rstrip('/') (line 76): the destination root of the runs
dest == <<"/", "d">>

\* os.path.join(dest, name)
join(d, name) == d \o <<"/">> \o name

\* mutant: the command never refers to the previous snapshot
LinkDest_Never(p) == None

\* lines 125-126: the --link-dest option, when lastgood is not None
LinkDest(p) ==
  IF lastgood[p] # None THEN join(dest, lastgood[p]) ELSE None

\* lines 120-135: the options of the rsync command that depend on the run
RsyncCommand(p) ==
  [ran |-> TRUE,
   dry_run |-> dryrun[p],
   link_dest |-> LinkDest(p),
   target |-> join(dest, label[p])]

\* lines 138, 10-19: retcode = run(rsync, logger); subprocess.run raises when
\* rsync cannot be started, decode raises on output that is not ASCII
Run(p) ==
  /\ pc[p] = "sync"
  /\ rsync' = [rsync EXCEPT ![p] = RsyncCommand(p)]
  /\ \/ \E rc \in RetCodes :
          /\ retcode' = [retcode EXCEPT ![p] = rc]
          /\ pc' = [pc EXCEPT ![p] = "result"]
          /\ UNCHANGED status
     \/ /\ Ends(p, "crashed", 1)
        /\ UNCHANGED retcode
  /\ UNCHANGED <<avars, lvars, pidWriters, dt, endedBefore, argsrc, now, marker, pidfile, lastgoodFile, otherProc, uid,
                 dryrun, pid, locked, pidfd, lastgood, label, lgWriters>>

\* mutant: lastgood is updated whatever the return code
UpdatesLastgood_Always(p) == TRUE

\* line 140: the condition under which lastgood is updated
UpdatesLastgood(p) == retcode[p] = 0

\* lines 140-141, putfile lines 34-35: on success open(filename, 'w') creates
\* or truncates the last-good pointer; lines 143-144: on failure nothing
CheckRetcode(p) ==
  /\ pc[p] = "result"
  /\ IF UpdatesLastgood(p)
       THEN /\ lastgoodFile' = Empty
            /\ lgWriters' = lgWriters \cup {p}
            /\ pc' = [pc EXCEPT ![p] = "writelastgood"]
       ELSE /\ pc' = [pc EXCEPT ![p] = "remove"]
            /\ UNCHANGED <<lastgoodFile, lgWriters>>
  /\ UNCHANGED <<avars, lvars, pidWriters, dt, endedBefore, argsrc, now, marker, pidfile, otherProc, uid, dryrun, pid,
                 locked, pidfd, lastgood, label, rsync, retcode, status>>

\* line 141, putfile line 36: f.write(label) and close
WriteLastgood(p) ==
  /\ pc[p] = "writelastgood"
  /\ lastgoodFile' = label[p]
  /\ pc' = [pc EXCEPT ![p] = "remove"]
  /\ UNCHANGED <<avars, lvars, pidWriters, dt, endedBefore, argsrc, now, marker, pidfile, otherProc, uid, dryrun, pid,
                 locked, pidfd, lastgood, label, rsync, retcode, status,
                 lgWriters>>

\* mutant: the file is left in place
Removed_Kept(file) == file

\* os.remove(file): the file does not exist afterwards
Removed(file) == None

\* lines 146-147: os.remove(os.path.join(dest, pidfile)) raises
\* FileNotFoundError when the pid file is gone; a run that has the removed
\* file open keeps writing to it
Remove(p) ==
  /\ pc[p] = "remove"
  /\ IF pidfile = None
       THEN /\ Ends(p, "crashed", 1)
            /\ UNCHANGED <<pidfile, pidfd>>
       ELSE /\ pidfile' = Removed(pidfile)
            /\ pidfd' = [q \in Pids |-> FALSE]
            /\ Ends(p, "done", 0)
  /\ UNCHANGED <<avars, lvars, pidWriters, dt, endedBefore, argsrc, now, marker, lastgoodFile, otherProc, uid, dryrun,
                 pid, locked, lastgood, label, rsync, retcode, lgWriters>>

NextB ==
  \/ Tick
  \/ \E p \in Pids : Start(p)
  \/ \E p \in Pids : GetPid(p)
  \/ \E p \in Pids : Probe(p)
  \/ \E p \in Pids : OpenPidfile(p)
  \/ \E p \in Pids : WritePidfile(p)
  \/ \E p \in Pids : GetLastgood(p)
  \/ \E p \in Pids : Run(p)
  \/ \E p \in Pids : CheckRetcode(p)
  \/ \E p \in Pids : WriteLastgood(p)
  \/ \E p \in Pids : Remove(p)

SpecB == InitB /\ [][NextB]_vars

\* =========================================================== Pipeline A
\* the number of entries of the source directory is at most MaxFiles
MaxFiles == 3

\* the characters of the file names and the labels, in the order of their code points
Alphabet ==
  <<"-", ".", "/", "0", "1", "2", "3", "4", "5", "6", "7", "8", "9", ":",
    "T", "_", "a", "b", "d", "g", "h", "m", "o", "p", "r", "s", "t", "u",
    "x", "z">>
ord(c) == CHOOSE k \in 1..Len(Alphabet) : Alphabet[k] = c

\* s < t for two python strings
RECURSIVE StrLess(_, _)
StrLess(s, t) ==
  IF t = <<>> THEN FALSE
  ELSE IF s = <<>> THEN TRUE
  ELSE IF s[1] # t[1] THEN ord(s[1]) < ord(t[1])
  ELSE StrLess(Tail(s), Tail(t))

\* mutant: the listing is sorted in descending order
RECURSIVE sort_Descending(_)
sort_Descending(S) ==
  IF S = {} THEN <<>>
  ELSE LET m == CHOOSE x \in S : \A y \in S \ {x} : StrLess(y, x)
       IN  <<m>> \o sort_Descending(S \ {m})

\* list.sort() of the listing of a directory that holds the names S
RECURSIVE sort(_)
sort(S) ==
  IF S = {} THEN <<>>
  ELSE LET m == CHOOSE x \in S : \A y \in S \ {x} : StrLess(x, y)
       IN  <<m>> \o sort(S \ {m})

\* the reserved name of the manifest, the suffix of a ciphertext
Md5sumsTxt == <<"m", "d", "5", "s", "u", "m", "s", ".", "t", "x", "t">>
GpgSuffix == <<".", "g", "p", "g">>

\* the names a source directory may hold
Names == { <<"a">>, <<"a">> \o GpgSuffix, Md5sumsTxt, <<"z">> }

\* the data of the source file named n, its encryption by gpg (mutant: gpg
\* writes its input), what a failed gpg may leave behind, and the line md5sum
\* prints for a file
Content(n) == <<"data:">> \o n
Gpg_Plain(d) == d
Gpg(d) == <<"gpg:">> \o d
GpgPartial == <<"gpg:">>
Md5Line(file, d) == <<"md5:">> \o d \o <<" ">> \o file \o <<"\n">>

\* the files of the cache directory
InCache(n) == \E f \in cache : f.name = n
DataOf(n) == (CHOOSE f \in cache : f.name = n).data
Written(c, n, d) == {f \in c : f.name # n} \cup {[name |-> n, data |-> d]}
Unlinked(c, n) == {f \in c : f.name # n}

\* Pipeline B is not run
IdleB ==
  /\ argsrc = <<>>
  /\ now = 1
  /\ marker = FALSE
  /\ pidfile = None
  /\ otherProc = "dead"
  /\ lastgoodFile = None
  /\ pc = [p \in Pids |-> "idle"]
  /\ uid = [p \in Pids |-> 0]
  /\ dryrun = [p \in Pids |-> FALSE]
  /\ pid = [p \in Pids |-> NoInt]
  /\ locked = [p \in Pids |-> FALSE]
  /\ pidfd = [p \in Pids |-> FALSE]
  /\ lastgood = [p \in Pids |-> None]
  /\ label = [p \in Pids |-> None]
  /\ rsync = [p \in Pids |-> NoCommand]
  /\ retcode = [p \in Pids |-> NoInt]
  /\ status = [p \in Pids |-> NoInt]
  /\ lgWriters = {}
  /\ pidWriters = {}
  /\ dt = [p \in Pids |-> NoInt]
  /\ endedBefore = [p \in Pids |-> {}]

\* a value of an environment variable, a value of a command line option
EnvValue == <<"/", "e">>
ArgValue == <<"/", "a">>

\* what a directory cachedir/<pid> that is there already may hold
StaleCache == {[name |-> <<"z">>, data |-> <<"data:", "o", "l", "d">>]}
StaleManifest == <<"md5:", "o", "l", "d", "\n">>

\* the state in which cloud_backup.py is started: the arguments, the source
\* directory, and whether cachedir/<pid> is there already
InitA ==
  /\ IdleB
  /\ IdleL
  /\ srcdir \in {S \in SUBSET Names : Cardinality(S) <= MaxFiles}
  /\ keepcache \in BOOLEAN
  /\ dryrunA \in BOOLEAN
  /\ environ \in [EnvNames -> {None, Empty, EnvValue}]
  /\ argsA \in [passphrase : {None, ArgValue}, cachedir : {None, ArgValue}]
  /\ passphrase = None
  /\ cacheroot = None
  /\ cachedir \in BOOLEAN
  /\ pcA = "config"
  /\ cache \in (IF cachedir THEN {{}, StaleCache} ELSE {{}})
  /\ manifest \in (IF cachedir THEN {None, StaleManifest} ELSE {None})
  /\ srcfiles = <<>>
  /\ i = 0
  /\ uploads = <<>>
  /\ statusA = NoInt

\* exit(n), or an uncaught exception (n = 1)
EndsA(at, n) ==
  /\ pcA' = at
  /\ statusA' = n

\* the variable srcfile of the current iteration, and destfile (line 109)
srcfile == srcfiles[i]
destfile == srcfile \o GpgSuffix

\* os.environ.get(name)
get(name) == environ[name]

\* the truth value of a string or None in a condition
Truthy(v) == v # None /\ v # Empty

\* lines 70, 79: env if env else arg if arg else None
Resolved(env, arg) ==
  IF Truthy(env) THEN env ELSE IF Truthy(arg) THEN arg ELSE None

\* lines 66-82: the passphrase and the cache directory are taken from the
\* environment or the arguments; exit(1) when one of them is None
Configure ==
  /\ pcA = "config"
  /\ LET pp == Resolved(get("CLOUDBACKUP_PASSPHRASE"), argsA.passphrase)
         cd == Resolved(get("CLOUDBACKUP_CACHEDIR"), argsA.cachedir)
     IN  /\ passphrase' = pp
         /\ IF pp = None
              THEN /\ EndsA("exit1", 1)
                   /\ UNCHANGED cacheroot
              ELSE /\ cacheroot' = cd
                   /\ IF cd = None
                        THEN EndsA("exit1", 1)
                        ELSE pcA' = "start" /\ UNCHANGED statusA
  /\ UNCHANGED <<bvars, lvars, environ, argsA, srcdir, keepcache, dryrunA,
                 cachedir, cache, manifest, srcfiles, i, uploads>>

\* mutant: a cache directory that is there already is used
CacheConflict_Never == FALSE

\* line 87: os.path.exists(cachedir)
CacheConflict == cachedir

\* lines 84-98: the pid specific cache directory must not exist; it is made,
\* the source directory is listed and the listing sorted
Stage ==
  /\ pcA = "start"
  /\ IF CacheConflict
       THEN /\ EndsA("exit1", 1)
            /\ UNCHANGED <<cachedir, srcfiles>>
       ELSE /\ cachedir' = TRUE
            /\ srcfiles' = sort(srcdir)
            /\ pcA' = "loop"
            /\ UNCHANGED statusA
  /\ UNCHANGED <<bvars, lvars, cvars, srcdir, keepcache, dryrunA, cache, manifest, i,
                 uploads>>

\* mutant: md5sums.txt is processed like any entry
IsManifestName_Never(n) == FALSE

\* line 105: the entry is the manifest's name
IsManifestName(n) == n = Md5sumsTxt

\* lines 101-107: the next entry of the listing; md5sums.txt is skipped
NextFile ==
  /\ pcA = "loop"
  /\ IF i = Len(srcfiles)
       THEN /\ pcA' = "ship"
            /\ UNCHANGED i
       ELSE /\ i' = i + 1
            /\ pcA' = IF IsManifestName(srcfiles[i + 1]) THEN "loop" ELSE "copy"
  /\ UNCHANGED <<bvars, lvars, cvars, srcdir, keepcache, dryrunA, cachedir, cache, manifest,
                 srcfiles, uploads, statusA>>

\* line 116: shutil.copy2(origfile, srcfile)
Copy ==
  /\ pcA = "copy"
  /\ cache' = Written(cache, srcfile, Content(srcfile))
  /\ pcA' = "md5src"
  /\ UNCHANGED <<bvars, lvars, cvars, srcdir, keepcache, dryrunA, cachedir, manifest,
                 srcfiles, i, uploads, statusA>>

\* lines 9-17: md5sum(file): /usr/bin/md5sum fails on a file that is not
\* there and may fail on one that is; a nonzero return code is exit(1), else
\* the line is appended to md5sums.txt
md5sum(file, next) ==
  \/ /\ InCache(file)
     /\ manifest' = (IF manifest = None THEN <<>> ELSE manifest)
                      \o Md5Line(file, DataOf(file))
     /\ pcA' = next
     /\ UNCHANGED statusA
  \/ /\ EndsA("exit1", 1)
     /\ UNCHANGED manifest

\* line 120: md5sum(srcfile)
Md5Src ==
  /\ pcA = "md5src"
  /\ md5sum(srcfile, "crypt")
  /\ UNCHANGED <<bvars, lvars, cvars, srcdir, keepcache, dryrunA, cachedir, cache, srcfiles,
                 i, uploads>>

\* lines 123, 29-32, 19-26: crypt(srcfile, destfile, passphrase): gpg writes
\* destfile, or fails and leaves nothing or a part of it; run only logs
Crypt ==
  /\ pcA = "crypt"
  /\ \/ cache' = Written(cache, destfile, Gpg(DataOf(srcfile)))
     \/ cache' = Written(cache, destfile, GpgPartial)
     \/ UNCHANGED cache
  /\ pcA' = "md5dest"
  /\ UNCHANGED <<bvars, lvars, cvars, srcdir, keepcache, dryrunA, cachedir, manifest,
                 srcfiles, i, uploads, statusA>>

\* line 125: md5sum(destfile)
Md5Dest ==
  /\ pcA = "md5dest"
  /\ md5sum(destfile, "unlinksrc")
  /\ UNCHANGED <<bvars, lvars, cvars, srcdir, keepcache, dryrunA, cachedir, cache, srcfiles,
                 i, uploads>>

\* lines 128-130: the cache copy of the source file is deleted
UnlinkSrc ==
  /\ pcA = "unlinksrc"
  /\ cache' = IF ~keepcache THEN Unlinked(cache, srcfile) ELSE cache
  /\ pcA' = "upload"
  /\ UNCHANGED <<bvars, lvars, cvars, srcdir, keepcache, dryrunA, cachedir, manifest,
                 srcfiles, i, uploads, statusA>>

\* lines 34-37, 19-26: tocloud(filename, cloud): rclone copies the file to
\* the sink or fails; a file that is not there cannot be copied; run only logs
tocloud(filename, data) ==
  \E ok \in BOOLEAN :
    /\ (data = None => ~ok)
    /\ uploads' = Append(uploads, [file |-> filename, data |-> data, ok |-> ok])

\* mutant: --dryrun is not looked at
UploadsEnabled_Always == TRUE

\* lines 133, 140: if not args.dryrun
UploadsEnabled == ~dryrunA

\* lines 133-134: the ciphertext is uploaded unless --dryrun
Upload ==
  /\ pcA = "upload"
  /\ IF UploadsEnabled
       THEN tocloud(destfile, DataOf(destfile))
       ELSE UNCHANGED uploads
  /\ pcA' = "unlinkdest"
  /\ UNCHANGED <<bvars, lvars, cvars, srcdir, keepcache, dryrunA, cachedir, cache, manifest,
                 srcfiles, i, statusA>>

\* lines 135-137: the ciphertext is deleted from the cache
UnlinkDest ==
  /\ pcA = "unlinkdest"
  /\ cache' = IF ~keepcache THEN Unlinked(cache, destfile) ELSE cache
  /\ pcA' = "loop"
  /\ UNCHANGED <<bvars, lvars, cvars, srcdir, keepcache, dryrunA, cachedir, manifest,
                 srcfiles, i, uploads, statusA>>

\* lines 140-141: the manifest is uploaded unless --dryrun
ShipManifest ==
  /\ pcA = "ship"
  /\ IF UploadsEnabled
       THEN tocloud(Md5sumsTxt, manifest)
       ELSE UNCHANGED uploads
  /\ pcA' = "unlinkmanifest"
  /\ UNCHANGED <<bvars, lvars, cvars, srcdir, keepcache, dryrunA, cachedir, cache, manifest,
                 srcfiles, i, statusA>>

\* lines 142-143: os.unlink('md5sums.txt') raises FileNotFoundError when no
\* checksum was ever appended
UnlinkManifest ==
  /\ pcA = "unlinkmanifest"
  /\ IF keepcache
       THEN /\ pcA' = "rmdir"
            /\ UNCHANGED <<manifest, statusA>>
       ELSE IF manifest = None
         THEN /\ EndsA("crashed", 1)
              /\ UNCHANGED manifest
         ELSE /\ manifest' = None
              /\ pcA' = "rmdir"
              /\ UNCHANGED statusA
  /\ UNCHANGED <<bvars, lvars, cvars, srcdir, keepcache, dryrunA, cachedir, cache, srcfiles,
                 i, uploads>>

\* lines 146-148: os.rmdir(cachedir) raises OSError on a directory that is
\* not empty
Rmdir ==
  /\ pcA = "rmdir"
  /\ IF keepcache
       THEN /\ EndsA("done", 0)
            /\ UNCHANGED cachedir
       ELSE IF cache # {} \/ manifest # None
         THEN /\ EndsA("crashed", 1)
              /\ UNCHANGED cachedir
         ELSE /\ cachedir' = FALSE
              /\ EndsA("done", 0)
  /\ UNCHANGED <<bvars, lvars, cvars, srcdir, keepcache, dryrunA, cache, manifest, srcfiles,
                 i, uploads>>

NextA ==
  \/ Configure
  \/ Stage
  \/ NextFile
  \/ Copy
  \/ Md5Src
  \/ Crypt
  \/ Md5Dest
  \/ UnlinkSrc
  \/ Upload
  \/ UnlinkDest
  \/ ShipManifest
  \/ UnlinkManifest
  \/ Rmdir

SpecA == InitA /\ [][NextA]_vars

\* ------------------------------------------------- get_label on its own
\* the clock values get_label is called at lie within MaxOffset seconds
\* after the second before a boundary: of a minute, of an hour, of the
\* tenth hour, of a day; and after midnight
MaxOffset == 3
Boundaries == {0, 59, 3599, 35999, 86399}
Times == UNION {b..(b + MaxOffset) : b \in Boundaries}

\* two calls of get_label for the same source on the same host
InitL ==
  /\ IdleA
  /\ IdleB
  /\ labelsrc \in ArgSrcs
  /\ t1 \in Times
  /\ t2 \in Times
  /\ label1 = None
  /\ label2 = None

\* line 116 in the run at t1: label = get_label(src)
Label1 ==
  /\ label1 = None
  /\ label1' = get_label(rstrip(labelsrc, "/"), t1)
  /\ UNCHANGED <<bvars, avars, labelsrc, t1, t2, label2>>

\* line 116 in the run at t2
Label2 ==
  /\ label2 = None
  /\ label2' = get_label(rstrip(labelsrc, "/"), t2)
  /\ UNCHANGED <<bvars, avars, labelsrc, t1, t2, label1>>

NextL ==
  \/ Label1
  \/ Label2

SpecL == InitL /\ [][NextL]_vars

\* ================================================================ claims
\* ---------------------------------------------------------- Pipeline B

\* a run owns the lock: it has written its pid into the lock file and has
\* not yet deleted the lock file, and it is alive
Owner(p) == pc[p] \in {"getlastgood", "sync", "result", "writelastgood", "remove"}

\* the run is past its handling of the sync result
Handled(p) == pc[p] \in {"remove", "done"}

\* C1: a run writes the last-good pointer if and only if the sync command's
\* exit status is zero: only runs whose sync exited zero ever call putfile on
\* it, every run that is past the result handling has written it exactly when
\* its sync exited zero, and after a run whose sync exited nonzero the pointer
\* file still holds what the run read from it (no other run having written).
C1_LastgoodIffSyncZero ==
  \A p \in Pids :
    /\ p \in lgWriters => retcode[p] = 0
    /\ Handled(p) => (p \in lgWriters <=> retcode[p] = 0)
    /\ (Handled(p) /\ retcode[p] # 0 /\ lgWriters = {})
         => lastgoodFile = lastgood[p]

\* C1 witness: a run completed after a failed sync next to an existing
\* pointer, which it left as it was, and another completed after a
\* successful sync and wrote the pointer
C1_Witness ==
  \E p, q \in Pids :
    /\ pc[p] = "done" /\ retcode[p] = 23 /\ lastgood[p] # None
    /\ pc[q] = "done" /\ retcode[q] = 0 /\ q \in lgWriters
    /\ lastgoodFile = label[q]

\* C2 (as claimed): a run started with --dryrun never updates the last-good
\* pointer, whatever the sync exit status.
C2_DryrunNeverUpdatesLastgood ==
  \A p \in Pids : dryrun[p] => p \notin lgWriters

\* C3 (as claimed): under every interleaving at most one live run is between
\* writing its pid into the lock file and deleting the lock file.
C3_AtMostOneOwner ==
  \A p, q \in Pids : Owner(p) /\ Owner(q) => p = q

\* C3 (amended): a run that read a live owner's pid from the lock file and
\* may signal that process never owns the lock together with that owner.
C3_NoOwnerBesideSeenOwner ==
  \A p, q \in Pids :
    (p # q /\ Owner(p) /\ Owner(q) /\ (uid[q] = 0 \/ uid[q] = uid[p]))
      => pid[q] # p

\* C3 witness: a run found the pid of another run, which had claimed the
\* lock, in the lock file, was allowed to signal it and gave up with status 2
C3_Witness ==
  \E p, q \in Pids :
    /\ p # q /\ pid[q] = p /\ (uid[q] = 0 \/ uid[q] = uid[p])
    /\ pc[q] = "exit2" /\ rsync[p].ran

\* C4 (as claimed): the liveness probe is non-destructive: no run is ever
\* terminated by the signal another run probes it with.
C4_ProbeTerminatesNoRun ==
  \A p \in Pids : pc[p] # "killed" /\ status[p] # SIGUSR1

\* the pid that run p read from the lock file belongs to a live process that
\* p may signal
RecordedPidLiveSignalable(p) ==
  IF pid[p] = OtherPid
    THEN otherProc = "live" \/ (otherProc = "notours" /\ uid[p] = 0)
    ELSE /\ pid[p] \in Pids
         /\ Live(pid[p])
         /\ (uid[p] = 0 \/ uid[p] = uid[pid[p]])

\* C5: a run whose probe finds the recorded pid live and signalable exits
\* with status 2 and in that step changes neither the lock file nor the
\* last-good pointer; a run that exited with status 2 has invoked no sync
\* command and has written neither file.
C5_LiveOwnerExit2 ==
  /\ [][\A p \in Pids :
          (Probe(p) /\ RecordedPidLiveSignalable(p))
            => /\ pc'[p] = "exit2" /\ status'[p] = 2
               /\ pidfile' = pidfile /\ lastgoodFile' = lastgoodFile]_vars
  /\ [](\A p \in Pids :
          status[p] = 2 => /\ pc[p] = "exit2"
                           /\ ~rsync[p].ran /\ retcode[p] = NoInt
                           /\ p \notin lgWriters /\ ~pidfd[p]
                           /\ pidfile # str(p))

\* C5 witness: a run exited with status 2 on the pid of a run it found live
C5_Witness ==
  \E p \in Pids : status[p] = 2 /\ pid[p] \in Pids /\ pidfile = str(pid[p])

\* C6: a run whose probe finds the recorded pid dead or not signalable goes
\* on to write the lock file instead of exiting; when no other run is
\* started it has replaced the stale pid by its own by the time it reaches
\* the sync step; a run that found the lock stale never exits with status 2.
C6_StaleLockOverridden ==
  /\ [][\A p \in Pids :
          (Probe(p) /\ ~RecordedPidLiveSignalable(p))
            => /\ pc'[p] = "putpid" /\ status'[p] = NoInt
               /\ ~locked'[p]]_vars
  /\ [](\A p \in Pids :
          /\ (pid[p] # NoInt /\ ~locked[p]) => status[p] # 2
          /\ (pid[p] # NoInt /\ pc[p] \in {"getlastgood", "sync"}
                /\ \A q \in Pids \ {p} : pc[q] = "idle")
               => pidfile = str(p))

\* C6 witness: a run found a stale pid in the lock file and is at its sync
\* step with its own pid in the lock file
C6_Witness ==
  \E p \in Pids :
    /\ pid[p] # NoInt /\ ~locked[p]
    /\ pc[p] = "sync" /\ pidfile = str(p)

\* ---------------------------------------------------------- Pipeline A

\* the entries of the listing that the loop processes, in the listing's order
Processed == SelectSeq(srcfiles, LAMBDA n : n # Md5sumsTxt)

\* the lines of a text, each without its newline
RECURSIVE LinesOf(_)
LinesOf(text) ==
  IF text = <<>> THEN <<>>
  ELSE LET k == CHOOSE j \in 1..Len(text) :
                  text[j] = "\n" /\ \A h \in 1..(j - 1) : text[h] # "\n"
       IN  <<SubSeq(text, 1, k - 1)>> \o LinesOf(SubSeq(text, k + 1, Len(text)))

\* the file name of a line of md5sum: what follows the separator
FileOfLine(line) ==
  LET k == CHOOSE j \in 1..Len(line) : line[j] = " "
  IN  SubSeq(line, k + 1, Len(line))

\* C7 (as claimed): a nonzero exit status of the checksum, encrypt or upload
\* command for one entry does not abort the run: once in the loop the run
\* never exits before the remaining entries are processed.
C7_FailureDoesNotAbortLoop ==
  ~(pcA = "exit1" /\ i > 0)

\* C8: when the manifest is shipped it holds exactly two lines per processed
\* entry, in the order of processing: the checksum line of the plaintext,
\* then a line for the ciphertext; it holds no line for md5sums.txt.
C8_ManifestTwoLinesPerEntry ==
  (pcA = "ship" /\ ~dryrunA) =>
    LET lines == LinesOf(IF manifest = None THEN <<>> ELSE manifest)
    IN  /\ Len(lines) = 2 * Len(Processed)
        /\ \A k \in 1..Len(Processed) :
             /\ lines[2 * k - 1] \o <<"\n">>
                  = Md5Line(Processed[k], Content(Processed[k]))
             /\ FileOfLine(lines[2 * k]) = Processed[k] \o GpgSuffix
        /\ \A k \in 1..Len(lines) : FileOfLine(lines[k]) # Md5sumsTxt
        /\ Md5sumsTxt \notin {Processed[k] : k \in 1..Len(Processed)}

\* C8 witness: the manifest is about to be shipped for a source directory
\* that holds md5sums.txt and two other entries
C8_Witness ==
  /\ pcA = "ship" /\ ~dryrunA
  /\ Md5sumsTxt \in srcdir /\ Len(Processed) = 2
  /\ manifest # None

\* the run made its cache directory (it did not stop on finding it there)
MadeCache ==
  ~(pcA \in {"config", "start", "off"}) /\ ~(pcA = "exit1" /\ i = 0)

\* the process has ended
EndedA == pcA \in {"done", "exit1", "crashed"}

\* C9 (as claimed): after a run without --keepcache that made its cache
\* directory, the directory does not exist when the process has ended.
C9_CacheRemovedAtEnd ==
  (EndedA /\ MadeCache /\ ~keepcache) => ~cachedir

\* the file names of the calls of tocloud, in order
UploadNames == [k \in 1..Len(uploads) |-> uploads[k].file]

\* the name of the source entry whose ciphertext has the name f
Stripped(f) == SubSeq(f, 1, Len(f) - Len(GpgSuffix))

\* C10: in a run without --dryrun the uploads are the ciphertexts n.gpg of
\* processed entries n in ascending order of n, each once, and md5sums.txt
\* is uploaded only as the last upload, once, after the loop has gone
\* through all entries; a run that got past the shipping has uploaded the
\* ciphertext of every processed entry and then the manifest.
C10_UploadOrder ==
  ~dryrunA =>
    LET U == UploadNames
        Shipped == pcA \in {"unlinkmanifest", "rmdir", "done", "crashed"}
    IN  /\ \A k \in 1..Len(U) :
             IF U[k] = Md5sumsTxt
               THEN k = Len(U) /\ Shipped /\ i = Len(srcfiles)
               ELSE /\ Len(U[k]) > Len(GpgSuffix)
                    /\ Stripped(U[k]) \o GpgSuffix = U[k]
                    /\ Stripped(U[k]) \in srcdir \ {Md5sumsTxt}
        /\ \A j, k \in 1..Len(U) :
             (j < k /\ U[k] # Md5sumsTxt)
               => StrLess(Stripped(U[j]), Stripped(U[k]))
        /\ Shipped =>
             /\ Len(U) = Cardinality(srcdir \ {Md5sumsTxt}) + 1
             /\ U[Len(U)] = Md5sumsTxt

\* C10 witness: a run without --dryrun completed with three entries
\* processed, their ciphertexts and then the manifest uploaded
C10_Witness ==
  /\ pcA = "done" /\ ~dryrunA
  /\ Len(uploads) = 4
  /\ uploads[4].file = Md5sumsTxt

\* the data is the plaintext of a source entry, as copy2 puts it in the cache
IsPlaintext(d) == d # <<>> /\ d[1] = "data:"

\* the data was written by gpg
IsGpgOutput(d) == d # <<>> /\ d[1] = "gpg:"

\* C11: in every state of every run, finished, aborted or crashed, each call
\* of tocloud was made either for md5sums.txt with the manifest, or for a
\* file n.gpg of a source entry n whose data at the time was written by gpg;
\* no upload carries the plaintext copy of a source entry.
C11_NoPlaintextUploaded ==
  \A k \in 1..Len(uploads) :
    LET u == uploads[k]
    IN  IF u.file = Md5sumsTxt
          THEN u.data = None \/ ~IsPlaintext(u.data)
          ELSE /\ Len(u.file) > Len(GpgSuffix)
               /\ Stripped(u.file) \o GpgSuffix = u.file
               /\ Stripped(u.file) \in srcdir
               /\ IsGpgOutput(u.data)
               /\ ~IsPlaintext(u.data)

\* C11 witness: the source holds a and a.gpg and the cache is kept; the
\* plaintext copy of a.gpg has replaced the ciphertext of a in the cache, and
\* both uploads of the run were ciphertexts, the second after a failure of gpg
C11_Witness ==
  /\ keepcache /\ Len(uploads) >= 2
  /\ uploads[1].file = <<"a">> \o GpgSuffix
  /\ uploads[1].data = Gpg(Content(<<"a">>))
  /\ uploads[2].file = <<"a">> \o GpgSuffix \o GpgSuffix
  /\ uploads[2].data = GpgPartial
  /\ InCache(<<"a">> \o GpgSuffix)
  /\ IsPlaintext(DataOf(<<"a">> \o GpgSuffix))

\* what is under the destination root, and the process the lock file names
DestRoot == <<marker, pidfile, lastgoodFile, otherProc>>

\* C12: when the marker file is absent from the destination root, every run
\* that has been started has exited with status 1, without having read the
\* lock file, written the lock file or the last-good pointer, or invoked
\* the sync command; and no step changes anything under the destination
\* root or signals the process the lock file names.
C12_NoMarkerExit1 ==
  /\ [](~marker =>
          /\ \A p \in Pids :
                /\ pc[p] \in {"idle", "exit1"}
                /\ pc[p] = "exit1" => status[p] = 1
                /\ pid[p] = NoInt
                /\ ~rsync[p].ran
          /\ pidWriters = {}
          /\ lgWriters = {})
  /\ [][~marker => UNCHANGED DestRoot]_vars

\* C12 witness: both runs have exited on a destination without marker whose
\* lock file names a live process and that has a last-good pointer
C12_Witness ==
  /\ ~marker
  /\ \A p \in Pids : pc[p] = "exit1" /\ status[p] = 1
  /\ pidfile = str(OtherPid) /\ otherProc = "live"
  /\ lastgoodFile # None

\* the directory cachedir/<pid> and what it holds
CacheDirState == <<cachedir, cache, manifest>>

\* the run has reached the test for its cache directory and found it there
FoundCacheDir == pcA = "start" /\ cachedir

\* the run stopped at the test for its cache directory
StoppedOnCacheDir == pcA = "exit1" /\ cacheroot # None /\ i = 0

\* C13: a run that finds cachedir/<pid> already there exits with status 1
\* in its next step and leaves the directory and what it holds as they are;
\* the run that stopped there has listed and processed no source entry and
\* made no upload, and the directory is still there.
C13_ExistingCacheDirExit1 ==
  /\ [][FoundCacheDir =>
          /\ pcA' = "exit1" /\ statusA' = 1
          /\ UNCHANGED CacheDirState]_vars
  /\ [](StoppedOnCacheDir =>
          /\ statusA = 1
          /\ cachedir
          /\ cache \in {{}, StaleCache}
          /\ manifest \in {None, StaleManifest}
          /\ srcfiles = <<>>
          /\ uploads = <<>>)

\* C13 witness: the run stopped on a cache directory that holds a file and
\* a manifest of an earlier run, with entries in the source directory and
\* uploads not disabled
C13_Witness ==
  /\ StoppedOnCacheDir
  /\ cache = StaleCache /\ manifest = StaleManifest
  /\ srcdir # {} /\ ~dryrunA

\* the value the configuration has by precedence: the environment variable
\* when it is set, else the command line option
Precedence(env, arg) == IF env # None THEN env ELSE arg

\* C14 (as claimed): once the configuration is resolved, the cache directory
\* is the value of CLOUDBACKUP_CACHE when that variable is set and of
\* --cachedir otherwise, the passphrase is the value of
\* CLOUDBACKUP_PASSPHRASE when set and of --passphrase otherwise; when one
\* of the two is undefined the run has exited with status 1 and has made no
\* cache directory, and otherwise it goes on with these two values.
C14_ConfigPrecedence ==
  pcA \notin {"off", "config"} =>
    LET cd == Precedence(environ["CLOUDBACKUP_CACHE"], argsA.cachedir)
        pp == Precedence(environ["CLOUDBACKUP_PASSPHRASE"], argsA.passphrase)
    IN  IF cd = None \/ pp = None
          THEN pcA = "exit1" /\ statusA = 1 /\ ~MadeCache
          ELSE /\ cacheroot = cd /\ passphrase = pp
               /\ ~(pcA = "exit1" /\ srcfiles = <<>> /\ ~cachedir)

\* run q was started after run p had completed with a sync that exited zero,
\* no other run has been started, and q has invoked its sync command
InSuccession(p, q) ==
  /\ p # q
  /\ p \in endedBefore[q]
  /\ pc[p] = "done" /\ retcode[p] = 0
  /\ \A r \in Pids \ {p, q} : pc[r] = "idle"
  /\ rsync[q].ran

\* a run that found no last-good pointer carries no link-dest argument
FirstEverNoLinkDest ==
  \A p \in Pids :
    (rsync[p].ran /\ lastgood[p] = None) => rsync[p].link_dest = None

\* C15 (as claimed): of two runs in succession, the first with a sync that
\* succeeded, the labels are distinct and the sync command of the second
\* carries as link-dest the snapshot path of the first run's label; a run
\* that found no last-good pointer carries no link-dest.
C15_SuccessiveRunsDistinctAndLinked ==
  /\ \A p, q \in Pids :
       InSuccession(p, q) =>
         /\ label[q] # label[p]
         /\ rsync[q].link_dest = join(dest, label[p])
  /\ FirstEverNoLinkDest

\* C15 (amended): of two runs in succession, the first with a sync that
\* succeeded, the sync command of the second carries as link-dest the
\* snapshot path of the first run's label, and the two labels are distinct
\* when the runs read the clock in different seconds (in the same second
\* they are equal); a run that found no last-good pointer carries no
\* link-dest.
C15_SuccessiveRunsLinked ==
  /\ \A p, q \in Pids :
       InSuccession(p, q) =>
         /\ rsync[q].link_dest = join(dest, label[p])
         /\ (dt[p] # dt[q]) <=> (label[q] # label[p])
  /\ FirstEverNoLinkDest

\* C15 witness: the second run, made a second later than the first, has
\* invoked its sync command with the first run's snapshot as link-dest, and
\* the first run was a first-ever run without link-dest
C15_Witness ==
  \E p, q \in Pids :
    /\ InSuccession(p, q)
    /\ dt[p] < dt[q]
    /\ label[p] # label[q]
    /\ rsync[q].link_dest = join(dest, label[p])
    /\ lastgood[p] = None /\ rsync[p].link_dest = None

\* the step in which run p terminates by reaching the end of the script
Completes(p) == pc[p] # "done" /\ pc'[p] = "done"

\* the step in which run p, at the release of the lock, terminates by itself
Releases(p) == pc[p] = "remove" /\ pc'[p] \in {"done", "crashed"}

\* C16: a run terminates normally only after it has claimed the lock and
\* handled the exit status of its sync command, zero or nonzero, and in the
\* step in which it terminates the lock file is deleted; whenever a run
\* ends at the release step, the lock file does not exist when the run has
\* terminated.
C16_LockReleasedOnCompletion ==
  [][\A p \in Pids :
       /\ Completes(p) =>
            /\ p \in pidWriters
            /\ retcode[p] \in RetCodes
            /\ status'[p] = 0
            /\ pidfile # None
            /\ pidfile' = None
       /\ Releases(p) => pidfile' = None]_vars

\* C16 witness: one run has completed after a sync that exited zero and one
\* after a sync that exited nonzero, and there is no lock file
C16_Witness ==
  /\ \E p, q \in Pids :
       /\ pc[p] = "done" /\ retcode[p] = 0
       /\ pc[q] = "done" /\ retcode[q] # 0 /\ retcode[q] \in RetCodes
  /\ pidWriters = Pids
  /\ pidfile = None

\* C17 (as claimed): when a run with --keepcache that made its cache
\* directory has ended, the directory exists and holds the manifest
\* md5sums.txt, whatever the source directory lists.
C17_KeepcacheKeepsManifest ==
  (EndedA /\ MadeCache /\ keepcache) => (cachedir /\ manifest # None)

\* the number of lines of the manifest
ManifestLines == Len(LinesOf(IF manifest = None THEN <<>> ELSE manifest))

\* C18: in a run with --dryrun tocloud is never called, neither for a
\* ciphertext nor for the manifest, while the rest of the pipeline is
\* carried out: where the upload of an entry is skipped the manifest has the
\* two checksum lines of each entry processed so far and the cache holds
\* the ciphertext gpg wrote, and the plaintext copy when the cache is kept;
\* without --keepcache the cache is empty between entries, and at the end
\* of the run the manifest and the cache directory are removed.
C18_DryrunUploadsNothing ==
  dryrunA =>
    /\ uploads = <<>>
    /\ pcA = "upload" =>
         /\ ManifestLines = 2 * Len(SelectSeq(SubSeq(srcfiles, 1, i),
                                              LAMBDA n : n # Md5sumsTxt))
         /\ InCache(destfile) /\ IsGpgOutput(DataOf(destfile))
         /\ keepcache =>
              InCache(srcfile) /\ DataOf(srcfile) = Content(srcfile)
         /\ ~keepcache => ~InCache(srcfile)
    /\ pcA = "ship" => ManifestLines = 2 * Len(Processed)
    /\ (pcA = "loop" /\ ~keepcache) => cache = {}
    /\ (pcA = "done" /\ ~keepcache) =>
         ~cachedir /\ cache = {} /\ manifest = None

\* C18 witness: a run with --dryrun and without --keepcache is done with two
\* entries processed; nothing was uploaded and the cache directory is gone
C18_Witness ==
  /\ dryrunA /\ ~keepcache
  /\ pcA = "done" /\ statusA = 0
  /\ Len(Processed) = 2
  /\ uploads = <<>>
  /\ ~cachedir

\* C19: two labels made for the same source on the same host at clock
\* values t1 and t2 compare as strings in the order of t1 and t2: the
\* earlier label is less when the times differ by a second or more, and
\* the labels are equal in the same second.
C19_LabelsSortByTime ==
  (label1 # None /\ label2 # None) =>
    /\ t1 < t2 => StrLess(label1, label2)
    /\ t2 < t1 => StrLess(label2, label1)
    /\ t1 = t2 => label1 = label2
    /\ Len(label1) = Len(label2)

\* C19 witness: the labels of 09:59:59 and of 10:00:00, one second apart,
\* for a local source
C19_Witness ==
  /\ label1 # None /\ label2 # None
  /\ t1 = 35999 /\ t2 = 36000
  /\ ~contains(labelsrc, ":")
  /\ StrLess(label1, label2)

\* no run but p, and the runs that had ended when p was started, has written
\* the lock file
SoleClaimant(p) == pidWriters \subseteq ({p} \cup endedBefore[p])

====
